---------------------------- MODULE Spec2Model ----------------------------
(***************************************************************************)
(* The asynchronous batch downloader of wyy-music.py: main() fans a list   *)
(* of song ids out to process_song coroutines, which run under one shared  *)
(* asyncio.Semaphore and share one TokenManager (a cached token guarded by *)
(* an asyncio.Lock).                                                       *)
(*                                                                         *)
(* Scheduling is cooperative: a coroutine runs without interruption until  *)
(* it suspends.  The suspension points of the program are the waits for    *)
(* the semaphore and for the lock, and the three asyncio.to_thread calls   *)
(* (token request, song-source request, save_song_files).  Each action     *)
(* below is one such uninterrupted run of one coroutine.                   *)
(*                                                                         *)
(* The second part is the download worker of the music_tools package       *)
(* (download_song_worker, get_music_details, download_song) and of the     *)
(* older command-line script (main.py, netease_api.py), which run one      *)
(* song at a time in a thread of their own.                                *)
(***************************************************************************)
EXTENDS Integers, Sequences, FiniteSets, TLC

\* ------------------------------------------------------------------ bounds
\* Largest batch (number of song ids handed to main).
MaxItems == 3

\* Largest semaphore capacity tried (the script's MAX_CONCURRENCY is one
\* value of this configuration parameter).
MaxConcurrency == 2

\* ------------------------------------------------------- values of the state
\* self._token = None: no token cached.  Tokens are the positive integers.
NoToken == 0

\* self._lock not held by any coroutine.  Owners are pipeline numbers.
NoOwner == 0

\* What the token endpoint request can end in, as _fetch_new_token sees it:
\* "ok"    a JSON object with a "token" field;
\* "none"  RequestException / KeyError / JSONDecodeError, caught, returns None;
\* "raise" any other exception (e.g. the JSON body is not an object), which
\*         _fetch_new_token does not catch.
FetchOutcomes == {"ok", "none", "raise"}

\* What get_wyy_source can hand back to process_song:
\* "ok"        a dict with status == 200;
\* "none"      None (request failed after the session's retries, or not JSON);
\* "bad_token" a dict with status != 200 whose msg mentions "token"/"令牌";
\* "error"     a dict with status != 200 and any other msg text;
\* "no_msg"    a dict with status != 200 and no msg field (msg is None, so
\*             msg.lower() raises AttributeError).
SourceOutcomes == {"ok", "none", "bad_token", "error", "no_msg"}

\* How the save_song_files thread can end:
\* "saved"      payload downloaded, written and tagged;
\* "tag_failed" payload downloaded and written, add_metadata_to_song failed
\*              (it logs and returns);
\* "no_url"     song_data has no url_info / url: nothing is downloaded;
\* "dl_failed"  the payload GET raised RequestException (caught, logged);
\* "io_error"   writing the file raised IOError (caught, logged);
\* "raise"      any other exception, which propagates to process_song.
SaveOutcomes == {"saved", "tag_failed", "no_url", "dl_failed", "io_error", "raise"}

\* The save outcomes in which the payload GET of line 214 was issued.
DownloadAttempted == {"saved", "tag_failed", "dl_failed", "io_error"}

\* The save outcomes in which the with-block of lines 214-218 completed.
FileWritten == {"saved", "tag_failed"}

VARIABLES
    music_ids,        \* main: the batch, a sequence of item numbers 1..n
    max_concurrency,  \* capacity the semaphore is created with
    main_pc,          \* main: "init", "exit" (empty batch), "gather", "reported"
    sem,              \* semaphore._value: free admission slots
    token,            \* TokenManager._token
    lock,             \* owner of TokenManager._lock, or NoOwner
    waiters,          \* FIFO queue of coroutines waiting for the lock
    pc,               \* position of each process_song coroutine
    tok,              \* the token get_token returned to each pipeline
    results,          \* the tuple each process_song returned
    fetchCount,       \* token requests issued so far
    fetchFailed,      \* token requests that produced no token
    fetched,          \* pipelines that issued a token request
    waited,           \* pipelines whose get_token had to wait for the lock
    revoked,          \* tokens that invalidate_token removed from the cache
    metaReq,          \* song-source requests issued per pipeline
    downloads,        \* payload downloads attempted per pipeline
    save_end,         \* how the pipeline's save_song_files call ended
    calls,            \* per pipeline: calls of get_token and of invalidate_token
    successful_songs, \* main: report partition
    failed_tasks,     \* main: report partition
    impl,             \* which worker runs: "package", "script", or "none"
    wpc,              \* worker position: "idle", "request", "download"
    attempt,          \* get_music_details: the loop variable
    trace,            \* get_music_details: what each requests.get led to
    sleeps,           \* get_music_details: time.sleep calls made
    details,          \* what get_music_details returned: "unset" until then
    play_url,         \* whether song.play_url has been filled in
    file,             \* the destination file: "absent", "partial", "complete"
    payload_gets,     \* payload GETs issued so far
    runs,             \* how each finished run of the worker ended
    playlists,        \* PlaylistManager.playlists, in insertion order
    playlists_file,   \* playlists.json: "absent", "corrupt", or "json" with its data
    last_call,        \* the last PlaylistManager call: arguments and result
    before,           \* PlaylistManager.playlists when that call was made
    calls_made,       \* number of PlaylistManager calls so far
    executable,       \* Player._executable: TRUE when ffplay was found
    process,          \* Player._process: a subprocess number, or NoProcess
    running,          \* the subprocesses started by the Player that still run
    current_song_duration, \* Player.current_song_duration
    playback_start_time,   \* Player.playback_start_time
    now,              \* time.time(), in whole seconds
    started,          \* number of subprocesses started so far
    phase,            \* how playback stands: "idle", "playing", "ended", "stopped"
    song_duration,    \* the duration the last started playback was given
    player_call,      \* the last call made on the Player: "none", "play", "stop"
    songs_in_table,   \* MusicToolsApp.songs_in_table: the kind of song in each row
    cursor_row,       \* DataTable.cursor_row, counted from 0
    playback_mode,    \* MusicToolsApp.playback_mode
    current_song,     \* MusicToolsApp.current_song: a row, or NoSong
    current_lyrics,   \* MusicToolsApp.current_lyrics: whose lyrics, which value
    lyrics,           \* per row: song.lyrics, "none" or "fetched"
    song_url,         \* per row: whether song.play_url is set
    fetching,         \* per row: fetch_song_details_worker threads in flight
    messages,         \* OnlineSongDetails messages posted and not yet handled
    audio,            \* the row whose audio the player plays, or NoSong
    commands,         \* number of user commands so far
    last_next,        \* what the last play_next_song did
    last_details      \* what the last on_online_song_details was given

sharedVars == <<token, lock, waiters, fetchCount, fetchFailed, fetched, waited, revoked>>
taskVars   == <<pc, tok, results, sem, metaReq>>
mainVars   == <<music_ids, max_concurrency, main_pc, successful_songs, failed_tasks>>
batchVars == <<music_ids, max_concurrency, main_pc, sem, token, lock, waiters, pc,
               tok, results, fetchCount, fetchFailed, fetched, waited, revoked,
               metaReq, downloads, save_end, calls, successful_songs,
               failed_tasks>>
workerVars == <<impl, wpc, attempt, trace, sleeps, details, play_url, file,
                payload_gets, runs>>
playlistVars == <<playlists, playlists_file, last_call, before, calls_made>>
playerVars == <<executable, process, running, current_song_duration,
                playback_start_time, now, started, phase, song_duration, player_call>>
tuiVars == <<songs_in_table, cursor_row, playback_mode, current_song,
             current_lyrics, lyrics, song_url, fetching, messages, audio,
             commands, last_next, last_details>>
appVars == <<playlistVars, playerVars, tuiVars>>
otherThanPlaylist == <<batchVars, workerVars, playerVars, tuiVars>>
otherThanPlayer == <<batchVars, workerVars, playlistVars, tuiVars>>
otherThanTui == <<batchVars, workerVars, playlistVars, playerVars>>
vars == <<batchVars, workerVars, appVars>>

Items == 1 .. Len(music_ids)

\* A process_song that has not returned yet has no result.  A returned
\* result is the tuple (success, data_or_msg); why stands for the message:
\* "no_token" (line 340), "source_failed" (line 352, msg without the word
\* token), "bad_token" (line 352, msg naming the token), "exception"
\* (line 363), or "ok" for the song_data of line 358.
Pending == [success |-> FALSE, why |-> "pending"]

\* ------------------------------------------------------------------- Init
\* The program at the start of main, for the id list ids and a semaphore
\* capacity k: nothing fetched, nothing cached, no coroutine started.
BatchInit(ids, k) ==
    /\ music_ids = ids
    /\ max_concurrency = k
    /\ main_pc = "init"
    /\ sem = 0
    /\ token = NoToken
    /\ lock = NoOwner
    /\ waiters = <<>>
    /\ pc = [p \in 1 .. Len(ids) |-> "start"]
    /\ tok = [p \in 1 .. Len(ids) |-> NoToken]
    /\ results = [p \in 1 .. Len(ids) |-> Pending]
    /\ fetchCount = 0
    /\ fetchFailed = 0
    /\ fetched = {}
    /\ waited = {}
    /\ revoked = {}
    /\ metaReq = [p \in 1 .. Len(ids) |-> 0]
    /\ downloads = [p \in 1 .. Len(ids) |-> 0]
    /\ save_end = [p \in 1 .. Len(ids) |-> "not_run"]
    /\ calls = [p \in 1 .. Len(ids) |-> [get_token |-> 0, invalidate |-> 0]]
    /\ successful_songs = <<>>
    /\ failed_tasks = <<>>

\* The download worker before its first run, with the destination file in
\* state f; i = "none" when no worker is part of the program run.
WorkerInit(i, f) ==
    /\ impl = i
    /\ wpc = "idle"
    /\ attempt = 0
    /\ trace = <<>>
    /\ sleeps = 0
    /\ details = "unset"
    /\ play_url = FALSE
    /\ file = f
    /\ payload_gets = 0
    /\ runs = <<>>

\* A PlaylistManager constructed on a config directory without a
\* playlists.json: _load_playlists returns the default (manager.py lines
\* 42-43), and nothing has been called yet.
NoCall == [op |-> "none", name |-> "", arg |-> "", result |-> "None"]

PlaylistInit ==
    /\ playlists = <<[name |-> "Favorites", ids |-> <<>>]>>
    /\ playlists_file = [state |-> "absent", data |-> <<>>]
    /\ last_call = NoCall
    /\ before = playlists
    /\ calls_made = 0

\* No subprocess.
NoProcess == 0

\* A Player after __init__ (player.py lines 11-15), where shutil.which found
\* ffplay or not (found), at a time after the epoch.
PlayerInit(found) ==
    /\ executable = found
    /\ process = NoProcess
    /\ running = {}
    /\ current_song_duration = 0
    /\ playback_start_time = 0
    /\ now = 1
    /\ started = 0
    /\ phase = "idle"
    /\ song_duration = 0
    /\ player_call = "none"

\* current_song = None
NoSong == -1

\* play_next_song has not been called / no details message has been handled.
NoNext == [called |-> FALSE, raised |-> FALSE, mode |-> "", from |-> 0, index |-> 0]
NoDetails == [song |-> NoSong, stale |-> FALSE]

\* The application after on_mount with the table filled with the songs of
\* the given kinds (app.py lines 96-105): nothing selected, nothing playing.
TuiInit(kinds) ==
    /\ songs_in_table = kinds
    /\ cursor_row = 0
    /\ playback_mode = "SEQUENCE"
    /\ current_song = NoSong
    /\ current_lyrics = [song |-> NoSong, value |-> "none"]
    /\ lyrics = [r \in 0 .. Len(kinds) - 1 |-> "none"]
    /\ song_url = [r \in 0 .. Len(kinds) - 1 |-> FALSE]
    /\ fetching = [r \in 0 .. Len(kinds) - 1 |-> 0]
    /\ messages = <<>>
    /\ audio = NoSong
    /\ commands = 0
    /\ last_next = NoNext
    /\ last_details = NoDetails

\* The parts of the application other than the batch and the worker, before
\* anything was done with them.
AppInit == PlaylistInit /\ PlayerInit(TRUE) /\ TuiInit(<<"local">>)

\* A batch of n distinct ids.
InitWith(n, k) ==
    /\ BatchInit([i \in 1 .. n |-> i], k)
    /\ WorkerInit("none", "absent")
    /\ AppInit

Init ==
    \E n \in 0 .. MaxItems : \E k \in 1 .. MaxConcurrency : InitWith(n, k)

\* ------------------------------------------------------------ process_song
\* Leaving the `async with semaphore` block with a return value: the result
\* tuple is produced and the slot is released.  s is the semaphore value
\* before the release.
ReturnLeakOnException(p, s, ok, why) ==
    /\ pc' = [pc EXCEPT ![p] = "done"]
    /\ results' = [results EXCEPT ![p] = [success |-> ok, why |-> why]]
    /\ sem' = IF why = "exception" THEN s ELSE s + 1
    /\ UNCHANGED <<tok, metaReq>>

Return(p, s, ok, why) ==
    /\ pc' = [pc EXCEPT ![p] = "done"]
    /\ results' = [results EXCEPT ![p] = [success |-> ok, why |-> why]]
    /\ sem' = s + 1
    /\ UNCHANGED <<tok, metaReq>>

\* Step 2 begins: get_wyy_source is handed to a worker thread with token t.
StartSource(p, s, t) ==
    /\ pc' = [pc EXCEPT ![p] = "source"]
    /\ tok' = [tok EXCEPT ![p] = t]
    /\ metaReq' = [metaReq EXCEPT ![p] = @ + 1]
    /\ sem' = s
    /\ UNCHANGED results

\* process_song after `token = await token_manager.get_token()`.
AfterGetTokenNoCheck(p, s, t) ==
    StartSource(p, s, t)

AfterGetToken(p, s, t) ==
    IF t = NoToken
    THEN Return(p, s, FALSE, "no_token")
    ELSE StartSource(p, s, t)

\* TokenManager.get_token holding (or taking) the lock with an empty cache:
\* the token request goes to a worker thread.
StartFetch(p, s) ==
    /\ lock' = p
    /\ fetchCount' = fetchCount + 1
    /\ fetched' = fetched \cup {p}
    /\ pc' = [pc EXCEPT ![p] = "fetching"]
    /\ sem' = s
    /\ UNCHANGED <<token, fetchFailed, revoked, tok, results, metaReq>>

\* Queue for the lock (asyncio.Lock hands the lock over in FIFO order).
WaitForLock(p, s, where) ==
    /\ waiters' = Append(waiters, p)
    /\ pc' = [pc EXCEPT ![p] = where]
    /\ sem' = s
    /\ UNCHANGED <<token, lock, fetchCount, fetchFailed, fetched, revoked,
                   tok, results, metaReq>>

LockFree == lock = NoOwner /\ waiters = <<>>

\* TokenManager.get_token from its first line up to its first suspension.
EnterGetTokenNoLock(p, s) ==
    IF token # NoToken
    THEN /\ AfterGetToken(p, s, token)
         /\ UNCHANGED sharedVars
    ELSE /\ StartFetch(p, s)
         /\ UNCHANGED <<waiters, waited>>

EnterGetTokenAlwaysFetch(p, s) ==
    IF LockFree
    THEN /\ StartFetch(p, s)
         /\ UNCHANGED <<waiters, waited>>
    ELSE /\ WaitForLock(p, s, "wait_lock")
         /\ waited' = waited \cup {p}

EnterGetToken(p, s) ==
    IF token # NoToken
    THEN /\ AfterGetToken(p, s, token)
         /\ UNCHANGED sharedVars
    ELSE IF LockFree
         THEN /\ StartFetch(p, s)
              /\ UNCHANGED <<waiters, waited>>
         ELSE /\ WaitForLock(p, s, "wait_lock")
              /\ waited' = waited \cup {p}

\* A pipeline is admitted by the semaphore and runs up to its first
\* suspension inside get_token.
AdmitUnbounded(p) ==
    /\ main_pc = "gather"
    /\ pc[p] = "start"
    /\ calls' = [calls EXCEPT ![p].get_token = @ + 1]
    /\ EnterGetToken(p, sem - 1)
    /\ UNCHANGED <<mainVars, downloads, save_end>>
    /\ UNCHANGED <<workerVars, appVars>>

Admit(p) ==
    /\ main_pc = "gather"
    /\ pc[p] = "start"
    /\ sem > 0
    /\ calls' = [calls EXCEPT ![p].get_token = @ + 1]
    /\ EnterGetToken(p, sem - 1)
    /\ UNCHANGED <<mainVars, downloads, save_end>>
    /\ UNCHANGED <<workerVars, appVars>>

\* A get_token caller that queued for the lock obtains it and re-checks the
\* cache.
LockGrantedNoRecheck(p) ==
    /\ pc[p] = "wait_lock"
    /\ lock = NoOwner
    /\ waiters # <<>> /\ Head(waiters) = p
    /\ waiters' = Tail(waiters)
    /\ StartFetch(p, sem)
    /\ UNCHANGED <<waited, mainVars, downloads, save_end, calls>>
    /\ UNCHANGED <<workerVars, appVars>>

LockGrantedShareFailure(p) ==
    /\ pc[p] = "wait_lock"
    /\ lock = NoOwner
    /\ waiters # <<>> /\ Head(waiters) = p
    /\ waiters' = Tail(waiters)
    /\ AfterGetToken(p, sem, token)
    /\ UNCHANGED <<token, lock, fetchCount, fetchFailed, fetched, revoked>>
    /\ UNCHANGED <<waited, mainVars, downloads, save_end, calls>>
    /\ UNCHANGED <<workerVars, appVars>>

LockGranted(p) ==
    /\ pc[p] = "wait_lock"
    /\ lock = NoOwner
    /\ waiters # <<>> /\ Head(waiters) = p
    /\ waiters' = Tail(waiters)
    /\ IF token # NoToken
       THEN /\ AfterGetToken(p, sem, token)
            /\ UNCHANGED <<token, lock, fetchCount, fetchFailed, fetched, revoked>>
       ELSE StartFetch(p, sem)
    /\ UNCHANGED <<waited, mainVars, downloads, save_end, calls>>
    /\ UNCHANGED <<workerVars, appVars>>

\* The token request returns: _fetch_new_token yields a token or None (or
\* raises), get_token stores it, the lock is released, and process_song goes
\* on to step 2 or returns.
FetchDoneKeepLock(p, r) ==
    /\ pc[p] = "fetching"
    /\ lock = p
    /\ CASE r = "ok" ->
              /\ token' = fetchCount
              /\ lock' = NoOwner
              /\ UNCHANGED fetchFailed
              /\ AfterGetToken(p, sem, fetchCount)
         [] r = "none" ->
              /\ token' = NoToken
              /\ lock' = p
              /\ fetchFailed' = fetchFailed + 1
              /\ AfterGetToken(p, sem, NoToken)
         [] r = "raise" ->
              /\ token' = token
              /\ lock' = p
              /\ fetchFailed' = fetchFailed + 1
              /\ Return(p, sem, FALSE, "exception")
    /\ UNCHANGED <<waiters, fetchCount, fetched, waited, revoked, mainVars, downloads, save_end, calls>>
    /\ UNCHANGED <<workerVars, appVars>>

FetchDone(p, r) ==
    /\ pc[p] = "fetching"
    /\ lock = p
    /\ CASE r = "ok" ->
              /\ token' = fetchCount
              /\ lock' = NoOwner
              /\ UNCHANGED fetchFailed
              /\ AfterGetToken(p, sem, fetchCount)
         [] r = "none" ->
              /\ token' = NoToken
              /\ lock' = NoOwner
              /\ fetchFailed' = fetchFailed + 1
              /\ AfterGetToken(p, sem, NoToken)
         [] r = "raise" ->
              /\ token' = token
              /\ lock' = NoOwner
              /\ fetchFailed' = fetchFailed + 1
              /\ Return(p, sem, FALSE, "exception")
    /\ UNCHANGED <<waiters, fetchCount, fetched, waited, revoked, mainVars, downloads, save_end, calls>>
    /\ UNCHANGED <<workerVars, appVars>>

\* TokenManager.invalidate_token once it holds the lock.
InvalidateKeepToken ==
    /\ UNCHANGED <<token, revoked>>

Invalidate ==
    /\ token' = NoToken
    /\ revoked' = IF token # NoToken THEN revoked \cup {token} ELSE revoked

\* get_wyy_source returns to process_song (lines 347-352, 355).  A msg that
\* names the token makes process_song call invalidate_token, which clears
\* the cache at once when the lock is free and queues for it otherwise.
SourceDoneNoInvalidate(p, r) ==
    /\ pc[p] = "source"
    /\ CASE r = "ok" ->
              /\ pc' = [pc EXCEPT ![p] = "save"]
              /\ UNCHANGED <<tok, results, sem, metaReq, sharedVars>>
         [] r \in {"none", "error"} ->
              /\ Return(p, sem, FALSE, "source_failed")
              /\ UNCHANGED sharedVars
         [] r = "no_msg" ->
              /\ Return(p, sem, FALSE, "exception")
              /\ UNCHANGED sharedVars
         [] r = "bad_token" ->
              /\ Return(p, sem, FALSE, "bad_token")
              /\ UNCHANGED sharedVars
    /\ UNCHANGED <<mainVars, downloads, save_end, calls>>
    /\ UNCHANGED <<workerVars, appVars>>

SourceDone(p, r) ==
    /\ pc[p] = "source"
    /\ CASE r = "ok" ->
              /\ pc' = [pc EXCEPT ![p] = "save"]
              /\ UNCHANGED <<tok, results, sem, metaReq, sharedVars, calls>>
         [] r \in {"none", "error"} ->
              /\ Return(p, sem, FALSE, "source_failed")
              /\ UNCHANGED <<sharedVars, calls>>
         [] r = "no_msg" ->
              /\ Return(p, sem, FALSE, "exception")
              /\ UNCHANGED <<sharedVars, calls>>
         [] r = "bad_token" ->
              /\ calls' = [calls EXCEPT ![p].invalidate = @ + 1]
              /\ IF LockFree
                 THEN /\ Invalidate
                      /\ Return(p, sem, FALSE, "bad_token")
                      /\ UNCHANGED <<lock, waiters, fetchCount, fetchFailed, fetched, waited>>
                 ELSE /\ WaitForLock(p, sem, "wait_invalidate")
                      /\ UNCHANGED waited
    /\ UNCHANGED <<mainVars, downloads, save_end>>
    /\ UNCHANGED <<workerVars, appVars>>

\* An invalidate_token caller that queued for the lock obtains it.
InvalidateGranted(p) ==
    /\ pc[p] = "wait_invalidate"
    /\ lock = NoOwner
    /\ waiters # <<>> /\ Head(waiters) = p
    /\ waiters' = Tail(waiters)
    /\ Invalidate
    /\ Return(p, sem, FALSE, "bad_token")
    /\ UNCHANGED <<lock, fetchCount, fetchFailed, fetched, waited, mainVars, downloads, save_end, calls>>
    /\ UNCHANGED <<workerVars, appVars>>

\* A process_song that treats a failed tag embedding as the item's failure.
SaveStepTagFailureFails(p, r) ==
    /\ pc[p] = "save"
    /\ downloads' = [downloads EXCEPT ![p] = IF r \in DownloadAttempted THEN @ + 1 ELSE @]
    /\ IF r \in {"raise", "tag_failed"}
       THEN Return(p, sem, FALSE, "exception")
       ELSE Return(p, sem, TRUE, "ok")
    /\ UNCHANGED <<sharedVars, mainVars, calls>>
    /\ UNCHANGED <<workerVars, appVars>>

\* The save_song_files thread ends and process_song returns (lines
\* 355-363): every way save_song_files returns leads to line 358, an
\* exception it lets through leads to line 363.
SaveStep(p, r) ==
    /\ pc[p] = "save"
    /\ downloads' = [downloads EXCEPT ![p] = IF r \in DownloadAttempted THEN @ + 1 ELSE @]
    /\ IF r = "raise"
       THEN Return(p, sem, FALSE, "exception")
       ELSE Return(p, sem, TRUE, "ok")
    /\ UNCHANGED <<sharedVars, mainVars, calls>>
    /\ UNCHANGED <<workerVars, appVars>>

SaveDone(p, r) ==
    /\ SaveStep(p, r)
    /\ UNCHANGED save_end

\* The same step with the way save_song_files ended kept on record.
SaveDoneObserved(p, r) ==
    /\ SaveStep(p, r)
    /\ save_end' = [save_end EXCEPT ![p] = r]

\* -------------------------------------------------------------------- main
\* main up to asyncio.gather: an empty id list ends the program, otherwise
\* the semaphore is created and one process_song per id is submitted.
MainStart ==
    /\ main_pc = "init"
    /\ IF music_ids = <<>>
       THEN /\ main_pc' = "exit"
            /\ sem' = sem
       ELSE /\ main_pc' = "gather"
            /\ sem' = max_concurrency
    /\ UNCHANGED <<music_ids, max_concurrency, successful_songs, failed_tasks,
                   sharedVars, pc, tok, results, metaReq, downloads, save_end, calls>>
    /\ UNCHANGED <<workerVars, appVars>>

\* The partition loop of lines 430-435 over the gathered results.
SuccessfulSongs(res) ==
    SelectSeq(music_ids, LAMBDA i : res[i].success)

FailedTasksStringsOnly(res) ==
    SelectSeq(music_ids, LAMBDA i : ~res[i].success /\ res[i].why # "exception")

FailedTasks(res) ==
    SelectSeq(music_ids, LAMBDA i : ~res[i].success)

\* A main whose gather lets a failed pipeline end the batch: the report is
\* only built when every pipeline succeeded.
ReportAbortOnFailure ==
    /\ main_pc = "gather"
    /\ \A p \in Items : pc[p] = "done" /\ results[p].success
    /\ successful_songs' = SuccessfulSongs(results)
    /\ failed_tasks' = FailedTasks(results)
    /\ main_pc' = "reported"
    /\ UNCHANGED <<music_ids, max_concurrency, sharedVars, taskVars, downloads,
                   save_end, calls>>
    /\ UNCHANGED <<workerVars, appVars>>

\* asyncio.gather returns once every process_song has returned; main builds
\* the report.
Report ==
    /\ main_pc = "gather"
    /\ \A p \in Items : pc[p] = "done"
    /\ successful_songs' = SuccessfulSongs(results)
    /\ failed_tasks' = FailedTasks(results)
    /\ main_pc' = "reported"
    /\ UNCHANGED <<music_ids, max_concurrency, sharedVars, taskVars, downloads,
                   save_end, calls>>
    /\ UNCHANGED <<workerVars, appVars>>

Next ==
    \/ MainStart
    \/ \E p \in Items : Admit(p)
    \/ \E p \in Items : LockGranted(p)
    \/ \E p \in Items : \E r \in FetchOutcomes : FetchDone(p, r)
    \/ \E p \in Items : \E r \in SourceOutcomes : SourceDone(p, r)
    \/ \E p \in Items : InvalidateGranted(p)
    \/ \E p \in Items : \E r \in SaveOutcomes : SaveDone(p, r)
    \/ Report

Spec == Init /\ [][Next]_vars

\* ------------------------------------------- batches with the save on record
\* The same program on batches of at most MaxSmallItems ids, with the way each
\* save_song_files call ended kept in save_end.
MaxSmallItems == 2

InitSmall ==
    \E n \in 1 .. MaxSmallItems : \E k \in 1 .. MaxConcurrency : InitWith(n, k)

NextSave ==
    \/ MainStart
    \/ \E p \in Items : Admit(p)
    \/ \E p \in Items : LockGranted(p)
    \/ \E p \in Items : \E r \in FetchOutcomes : FetchDone(p, r)
    \/ \E p \in Items : \E r \in SourceOutcomes : SourceDone(p, r)
    \/ \E p \in Items : InvalidateGranted(p)
    \/ \E p \in Items : \E r \in SaveOutcomes : SaveDoneObserved(p, r)
    \/ Report

SpecSave == InitSmall /\ [][NextSave]_vars

\* ------------------------------------------------------- fair scheduling
\* The event loop runs every coroutine that is ready, and every call handed to
\* a thread returns or raises: as long as some step of the program is
\* possible, a step is taken.
LiveSpec == InitSmall /\ [][Next]_vars /\ WF_vars(Next)

\* ------------------------------------------------------ operator interrupt
\* KeyboardInterrupt while asyncio.run(main()) is running: the main task and
\* through gather every unfinished process_song are cancelled (CancelledError
\* is not an Exception, so the handler of line 360 does not turn it into a
\* result), the `async with` blocks release the semaphore and the lock, and
\* the handler of lines 465-467 logs one line.  No report is built.
Interrupt ==
    /\ main_pc \in {"init", "gather"}
    /\ main_pc' = "interrupted"
    /\ pc' = [p \in Items |-> IF pc[p] = "done" THEN "done" ELSE "cancelled"]
    /\ sem' = IF main_pc = "gather" THEN max_concurrency ELSE sem
    /\ lock' = NoOwner
    /\ waiters' = <<>>
    /\ UNCHANGED <<music_ids, max_concurrency, successful_songs, failed_tasks,
                   token, fetchCount, fetchFailed, fetched, waited, revoked,
                   tok, results, metaReq, downloads, save_end, calls>>
    /\ UNCHANGED <<workerVars, appVars>>

\* The items the interrupted program reports as cancelled: the program has no
\* such outcome and the handler names no item.
CancelledTasks == <<>>

NextInterrupt ==
    \/ MainStart
    \/ \E p \in Items : Admit(p)
    \/ \E p \in Items : LockGranted(p)
    \/ \E p \in Items : \E r \in FetchOutcomes : FetchDone(p, r)
    \/ \E p \in Items : \E r \in SourceOutcomes : SourceDone(p, r)
    \/ \E p \in Items : InvalidateGranted(p)
    \/ \E p \in Items : \E r \in SaveOutcomes : SaveDone(p, r)
    \/ Report
    \/ Interrupt

SpecInterrupt == InitSmall /\ [][NextInterrupt]_vars

\* ------------------------------------------------- the same id, twice
\* A music_ids list that names one song twice, run with a semaphore of
\* capacity 1: the two pipelines run one after the other and both compute the
\* same music_path (lines 186-188, 211).
TwiceIds == <<1, 1>>

InitTwice ==
    /\ BatchInit(TwiceIds, 1)
    /\ WorkerInit("none", "absent")
    /\ AppInit

\* With one slot nobody ever waits for the credential lock, so the steps that
\* hand the lock to a waiter are left out.
NextTwice ==
    \/ MainStart
    \/ \E p \in Items : Admit(p)
    \/ \E p \in Items : \E r \in FetchOutcomes : FetchDone(p, r)
    \/ \E p \in Items : \E r \in SourceOutcomes : SourceDone(p, r)
    \/ \E p \in Items : \E r \in SaveOutcomes : SaveDoneObserved(p, r)
    \/ Report

SpecTwice == InitTwice /\ [][NextTwice]_vars

\* ------------------------------------------------ the five-song batch
\* The batch main is written with: five song ids (lines 377-381), the third
\* of which is the one marked as the failing test id.
ScenarioItems == 5

BadItem == 3

\* The batch of five run with a semaphore of capacity 2.
Init12 == InitWith(ScenarioItems, 2)

\* What the song-source endpoint answers for item p in that batch: always
\* "invalid token" for the bad item, a playable song for the others.
SourceAnswer12(p) == IF p = BadItem THEN "bad_token" ELSE "ok"

\* The same program over a healthy service apart from the bad item.
Next12 ==
    \/ MainStart
    \/ \E p \in Items : Admit(p)
    \/ \E p \in Items : LockGranted(p)
    \/ \E p \in Items : FetchDone(p, "ok")
    \/ \E p \in Items : SourceDone(p, SourceAnswer12(p))
    \/ \E p \in Items : InvalidateGranted(p)
    \/ \E p \in Items : SaveDone(p, "saved")
    \/ Report

Spec12 == Init12 /\ [][Next12]_vars

\* ------------------------------------------------- the download worker
\* get_music_details makes at most MAX_RETRIES requests.
MAX_RETRIES == 3

\* How often the worker is run for the same song.
MaxRuns == 2

\* "package": download_song_worker of tui/app.py with api/netease.py and
\*            downloader.py;
\* "script":  download_song of main.py with netease_api.py.
Impls == {"package", "script"}

\* What one requests.get of get_music_details leads to:
\* "ok"             status 200, code 200 and a url in the data;
\* "no_url"         status 200, code 200, data without a url;
\* "api_error"      status 200, a code other than 200;
\* "timeout"        requests.get raised (connection error, timeout);
\* "http_4xx"       a 4xx status other than 429: raise_for_status raised;
\* "http_retryable" status 429 or 5xx: raise_for_status raised;
\* "exception"      an exception that is not a RequestException.
DetailOutcomes ==
    {"ok", "no_url", "api_error", "timeout", "http_4xx", "http_retryable", "exception"}

\* The outcomes that reach `except requests.exceptions.RequestException`.
RequestExceptions == {"timeout", "http_4xx", "http_retryable"}

\* The failures the specification calls transient.
Transient == {"timeout", "http_retryable"}

\* What the payload transfer leads to: "ok"; "get_failed", the GET or
\* raise_for_status raised before the file was opened; "write_failed", the
\* file was opened and the transfer or the write raised.
PayloadOutcomes == {"ok", "get_failed", "write_failed"}

\* Whether get_music_details goes on to its next iteration after outcome o.
\* The package returns None at once for a 200 answer without a url
\* (api/netease.py lines 84-93) and lets other exceptions out; the script
\* also goes round again after an API error code and after any exception
\* (netease_api.py lines 63-69).
Retried(i, o) ==
    IF i = "package"
    THEN o \in RequestExceptions
    ELSE o \in RequestExceptions \cup {"api_error", "exception"}

\* A loop that makes one iteration more than range(MAX_RETRIES).
InRangeOneMore(a) == a <= MAX_RETRIES

\* for attempt in range(MAX_RETRIES): whether a is a value of the loop.
InRange(a) == a < MAX_RETRIES

\* The program that only runs the worker: no batch, impl i, file state f.
InitWorker ==
    /\ BatchInit(<<>>, 1)
    /\ \E i \in Impls : \E f \in {"absent", "complete"} : WorkerInit(i, f)
    /\ AppInit

\* The worker run ends: what the user is told, whether the destination file
\* was there when the run ended its metadata part, and the payload GETs of
\* the run.
EndRun(outcome, gets) ==
    /\ runs' = Append(runs, [outcome |-> outcome, existed |-> file # "absent", gets |-> gets])
    /\ wpc' = "idle"

\* download_song_worker / download_song is started for the song.  The package
\* skips get_music_details when song.play_url is already set (app.py line
\* 534); the script always asks (main.py line 119).
StartWorker ==
    /\ impl \in Impls
    /\ wpc = "idle"
    /\ Len(runs) < MaxRuns
    /\ wpc' = IF impl = "package" /\ play_url THEN "download" ELSE "request"
    /\ attempt' = 0
    /\ trace' = <<>>
    /\ sleeps' = 0
    /\ details' = "unset"
    /\ UNCHANGED <<impl, play_url, file, payload_gets, runs, batchVars, appVars>>

\* One iteration of the loop of get_music_details: the request is made and
\* its outcome handled, up to the next request or to the return.
RequestDone(o) ==
    /\ wpc = "request"
    /\ trace' = Append(trace, o)
    /\ CASE o = "ok" ->
              /\ details' = "url"
              /\ play_url' = (impl = "package")
              /\ wpc' = "download"
              /\ UNCHANGED <<attempt, sleeps, runs>>
         [] Retried(impl, o) ->
              /\ sleeps' = IF attempt < MAX_RETRIES - 1 THEN sleeps + 1 ELSE sleeps
              /\ attempt' = attempt + 1
              /\ IF InRange(attempt + 1)
                 THEN UNCHANGED <<wpc, details, runs>>
                 ELSE details' = "None" /\ EndRun("no_link", 0)
              /\ UNCHANGED play_url
         [] impl = "package" /\ o = "exception" ->
              /\ details' = "raised"
              /\ EndRun("crashed", 0)
              /\ UNCHANGED <<attempt, sleeps, play_url>>
         [] OTHER ->
              /\ details' = "None"
              /\ EndRun("no_link", 0)
              /\ UNCHANGED <<attempt, sleeps, play_url>>
    /\ UNCHANGED <<impl, file, payload_gets, batchVars, appVars>>

\* The download step.  download_song of the package returns the path of a
\* file that is already there without any request (downloader.py lines
\* 44-46); download_song of the script always transfers (main.py lines
\* 134-149).  The run is a success exactly when the transfer completed or
\* was skipped.
DownloadDone(o) ==
    /\ wpc = "download"
    /\ IF impl = "package" /\ file # "absent"
       THEN /\ o = "ok"
            /\ EndRun("done", 0)
            /\ UNCHANGED <<file, payload_gets>>
       ELSE /\ payload_gets' = payload_gets + 1
            /\ file' = CASE o = "ok" -> "complete"
                          [] o = "get_failed" -> file
                          [] o = "write_failed" -> "partial"
            /\ EndRun(IF o = "ok" THEN "done" ELSE "dl_error", 1)
    /\ UNCHANGED <<impl, attempt, trace, sleeps, details, play_url, batchVars, appVars>>

NextWorker ==
    \/ StartWorker
    \/ \E o \in DetailOutcomes : RequestDone(o)
    \/ \E o \in PayloadOutcomes : DownloadDone(o)

SpecWorker == InitWorker /\ [][NextWorker]_vars

\* ------------------------------------------------------ PlaylistManager
\* How many PlaylistManager calls a run makes.
MaxCalls == 4

PlaylistNames == {"Favorites", "Rock", "Jazz"}

\* The songs handed to add_to_playlist: LocalSong values (with a filepath)
\* and OnlineSong values (with an integer id).
Songs ==
    { [kind |-> "local",  filepath |-> "a.mp3", id |-> 0],
      [kind |-> "local",  filepath |-> "1",     id |-> 0],
      [kind |-> "online", filepath |-> "",      id |-> 1],
      [kind |-> "online", filepath |-> "",      id |-> 2] }

\* identifier = str(song.filepath) if isinstance(song, LocalSong) else
\* str(song.id)  (manager.py line 88).
Identifier(song) ==
    IF song.kind = "local" THEN song.filepath ELSE ToString(song.id)

\* The identifiers remove_from_playlist is called with.
Identifiers == {Identifier(s) : s \in Songs} \cup {"non_existent_id"}

\* What _save_playlists does: "ok" writes the file; "open_failed", open()
\* raised IOError and the file is as before; "write_failed", the file was
\* truncated and json.dump raised IOError.  Both errors are passed over.
WriteOutcomes == {"ok", "open_failed", "write_failed"}

\* name in self.playlists
HasPlaylist(pl, name) == \E i \in 1 .. Len(pl) : pl[i].name = name

\* self.playlists[name]
IdsOf(pl, name) == pl[CHOOSE i \in 1 .. Len(pl) : pl[i].name = name].ids

\* self.playlists[name] = ids, for a name that is a key already
SetIds(pl, name, ids) ==
    [i \in 1 .. Len(pl) |-> IF pl[i].name = name THEN [pl[i] EXCEPT !.ids = ids] ELSE pl[i]]

\* identifier in self.playlists[playlist_name]
InList(ids, x) == \E i \in 1 .. Len(ids) : ids[i] = x

\* A comprehension that drops the element after a match as well.
WithoutAndNext(ids, x) ==
    LET keep(i) == ids[i] # x /\ (i = 1 \/ ids[i - 1] # x)
        F[i \in 0 .. Len(ids)] ==
            IF i = 0 THEN <<>>
            ELSE IF keep(i) THEN Append(F[i - 1], ids[i]) ELSE F[i - 1]
    IN  F[Len(ids)]

\* [s_id for s_id in ids if s_id != song_identifier]
Without(ids, x) == SelectSeq(ids, LAMBDA s : s # x)

\* json.dump of the dict: an object whose members are the (key, list) pairs
\* in insertion order.
Dump(pl) == [i \in 1 .. Len(pl) |-> <<pl[i].name, pl[i].ids>>]

\* _load_playlists: the default when the file is missing or is not JSON,
\* otherwise the dict built from the members of the object.
LoadPlaylists(f) ==
    IF f.state = "json"
    THEN [i \in 1 .. Len(f.data) |-> [name |-> f.data[i][1], ids |-> f.data[i][2]]]
    ELSE <<[name |-> "Favorites", ids |-> <<>>]>>

\* _save_playlists of the dict pl.
SavePlaylists(pl, w) ==
    playlists_file' =
        CASE w = "ok" -> [state |-> "json", data |-> Dump(pl)]
          [] w = "open_failed" -> playlists_file
          [] w = "write_failed" -> [state |-> "corrupt", data |-> <<>>]

\* Bookkeeping of one call of the manager.
Called(op, name, arg, result) ==
    /\ calls_made < MaxCalls
    /\ calls_made' = calls_made + 1
    /\ last_call' = [op |-> op, name |-> name, arg |-> arg, result |-> result]
    /\ before' = playlists

\* A create_playlist that assigns the empty list without looking first.
create_playlist_overwrite(name, w) ==
    /\ playlists' = IF HasPlaylist(playlists, name)
                     THEN SetIds(playlists, name, <<>>)
                     ELSE Append(playlists, [name |-> name, ids |-> <<>>])
    /\ SavePlaylists(playlists', w)
    /\ Called("create", name, "", IF HasPlaylist(playlists, name) THEN "False" ELSE "True")
    /\ UNCHANGED otherThanPlaylist

\* create_playlist (manager.py lines 75-81).
create_playlist(name, w) ==
    /\ IF HasPlaylist(playlists, name)
       THEN /\ w = "ok"
            /\ Called("create", name, "", "False")
            /\ UNCHANGED <<playlists, playlists_file>>
       ELSE /\ playlists' = Append(playlists, [name |-> name, ids |-> <<>>])
            /\ SavePlaylists(playlists', w)
            /\ Called("create", name, "", "True")
    /\ UNCHANGED otherThanPlaylist

\* An add_to_playlist without the test of lines 91-94.
add_to_playlist_no_check(name, song, w) ==
    /\ IF ~HasPlaylist(playlists, name)
       THEN /\ w = "ok"
            /\ Called("add", name, Identifier(song), "PlaylistNotFoundException")
            /\ UNCHANGED <<playlists, playlists_file>>
       ELSE /\ playlists' = SetIds(playlists, name,
                                   Append(IdsOf(playlists, name), Identifier(song)))
            /\ SavePlaylists(playlists', w)
            /\ Called("add", name, Identifier(song), "None")
    /\ UNCHANGED otherThanPlaylist

\* add_to_playlist (manager.py lines 83-97).
add_to_playlist(name, song, w) ==
    /\ IF ~HasPlaylist(playlists, name)
       THEN /\ w = "ok"
            /\ Called("add", name, Identifier(song), "PlaylistNotFoundException")
            /\ UNCHANGED <<playlists, playlists_file>>
       ELSE IF InList(IdsOf(playlists, name), Identifier(song))
       THEN /\ w = "ok"
            /\ Called("add", name, Identifier(song), "SongAlreadyExistsException")
            /\ UNCHANGED <<playlists, playlists_file>>
       ELSE /\ playlists' = SetIds(playlists, name,
                                   Append(IdsOf(playlists, name), Identifier(song)))
            /\ SavePlaylists(playlists', w)
            /\ Called("add", name, Identifier(song), "None")
    /\ UNCHANGED otherThanPlaylist

\* remove_from_playlist (manager.py lines 99-112): the list is rebuilt in any
\* case, the file is written only when the list got shorter.
remove_from_playlist(name, ident, w) ==
    /\ IF ~HasPlaylist(playlists, name)
       THEN /\ w = "ok"
            /\ Called("remove", name, ident, "PlaylistNotFoundException")
            /\ UNCHANGED <<playlists, playlists_file>>
       ELSE /\ playlists' = SetIds(playlists, name, Without(IdsOf(playlists, name), ident))
            /\ IF Len(IdsOf(playlists', name)) < Len(IdsOf(playlists, name))
               THEN /\ SavePlaylists(playlists', w)
                    /\ Called("remove", name, ident, "True")
               ELSE /\ w = "ok"
                    /\ Called("remove", name, ident, "False")
                    /\ UNCHANGED playlists_file
    /\ UNCHANGED otherThanPlaylist

\* A new PlaylistManager is constructed on the same config directory
\* (manager.py lines 25-38) and takes the place of the old one.
NewManager ==
    /\ playlists' = LoadPlaylists(playlists_file)
    /\ Called("init", "", "", "None")
    /\ UNCHANGED <<playlists_file, otherThanPlaylist>>

InitPlaylist ==
    /\ BatchInit(<<>>, 1)
    /\ WorkerInit("none", "absent")
    /\ AppInit

NextPlaylist ==
    \/ \E n \in PlaylistNames : \E w \in WriteOutcomes : create_playlist(n, w)
    \/ \E n \in PlaylistNames : \E g \in Songs : \E w \in WriteOutcomes :
           add_to_playlist(n, g, w)
    \/ \E n \in PlaylistNames : \E x \in Identifiers : \E w \in WriteOutcomes :
           remove_from_playlist(n, x, w)
    \/ NewManager

SpecPlaylist == InitPlaylist /\ [][NextPlaylist]_vars

\* ---------------------------------------------------------------- Player
\* How many subprocesses a run starts, how far the clock runs, and the longest
\* song.
MaxPlays == 3
MaxTime == 4
MaxDuration == 2

\* is_available (player.py lines 22-25)
is_available == executable

\* is_playing (lines 27-30): there is a process and poll() finds it running.
is_playing == process # NoProcess /\ process \in running

Min(a, b) == IF a <= b THEN a ELSE b

\* A progress that reports the elapsed time as it is.
get_current_progress_uncapped ==
    IF ~is_playing
    THEN IF playback_start_time > 0
         THEN <<current_song_duration, current_song_duration>>
         ELSE <<0, current_song_duration>>
    ELSE <<now - playback_start_time, current_song_duration>>

\* get_current_progress (lines 74-84), read at the current time.
get_current_progress ==
    IF ~is_playing
    THEN IF playback_start_time > 0
         THEN <<current_song_duration, current_song_duration>>
         ELSE <<0, current_song_duration>>
    ELSE <<Min(now - playback_start_time, current_song_duration), current_song_duration>>

\* The state stop() leaves (lines 62-72): the process, if there is one, was
\* terminated, or killed after the wait timed out, and is forgotten.
Stopped ==
    /\ running' = IF process # NoProcess THEN running \ {process} ELSE running
    /\ process' = NoProcess
    /\ current_song_duration' = 0
    /\ playback_start_time' = 0

\* stop() called by the application.
stop ==
    /\ Stopped
    /\ phase' = "stopped"
    /\ player_call' = "stop"
    /\ UNCHANGED <<executable, now, started, song_duration, otherThanPlayer>>

\* A play that starts the new subprocess without stopping the old one.
play_without_stop(duration, popen) ==
    /\ started < MaxPlays
    /\ player_call' = "play"
    /\ IF ~is_available
       THEN UNCHANGED <<process, running, current_song_duration,
                        playback_start_time, started, phase, song_duration>>
       ELSE IF popen = "raises"
       THEN UNCHANGED <<process, running, current_song_duration,
                        playback_start_time, started, phase, song_duration>>
       ELSE /\ started' = started + 1
            /\ process' = started + 1
            /\ running' = running \cup {started + 1}
            /\ current_song_duration' = duration
            /\ playback_start_time' = now
            /\ phase' = "playing"
            /\ song_duration' = duration
    /\ UNCHANGED <<executable, now, otherThanPlayer>>

\* play(target, duration) (lines 32-60).  popen tells whether
\* subprocess.Popen starts the player ("ok") or raises ("raises"); in the
\* second case a playback that was running has been stopped already.
play(duration, popen) ==
    /\ started < MaxPlays
    /\ player_call' = "play"
    /\ IF ~is_available
       THEN UNCHANGED <<process, running, current_song_duration,
                        playback_start_time, started, phase, song_duration>>
       ELSE IF popen = "raises"
       THEN IF is_playing
            THEN /\ Stopped
                 /\ phase' = "stopped"
                 /\ UNCHANGED <<started, song_duration>>
            ELSE UNCHANGED <<process, running, current_song_duration,
                             playback_start_time, started, phase, song_duration>>
       ELSE /\ started' = started + 1
            /\ process' = started + 1
            /\ running' = (IF is_playing THEN running \ {process} ELSE running)
                              \cup {started + 1}
            /\ current_song_duration' = duration
            /\ playback_start_time' = now
            /\ phase' = "playing"
            /\ song_duration' = duration
    /\ UNCHANGED <<executable, now, otherThanPlayer>>

\* ffplay -autoexit comes to the end of the audio, or fails, and exits.
ProcessExit ==
    /\ is_playing
    /\ running' = running \ {process}
    /\ phase' = "ended"
    /\ UNCHANGED <<executable, process, current_song_duration, playback_start_time,
                   now, started, song_duration, player_call, otherThanPlayer>>

\* A second passes.
Tick ==
    /\ now < MaxTime
    /\ now' = now + 1
    /\ UNCHANGED <<executable, process, running, current_song_duration,
                   playback_start_time, started, phase, song_duration,
                   player_call, otherThanPlayer>>

InitPlayer ==
    /\ BatchInit(<<>>, 1)
    /\ WorkerInit("none", "absent")
    /\ PlaylistInit
    /\ \E found \in BOOLEAN : PlayerInit(found)
    /\ TuiInit(<<"local">>)

NextPlayer ==
    \/ \E d \in 0 .. MaxDuration : \E o \in {"ok", "raises"} : play(d, o)
    \/ stop
    \/ ProcessExit
    \/ Tick

SpecPlayer == InitPlayer /\ [][NextPlayer]_vars

\* --------------------------------------------------------- MusicToolsApp
\* The largest song table and the number of user commands in a run.
MaxRows == 2
MaxCommands == 3

Rows == 0 .. Len(songs_in_table) - 1

\* list(PlaybackMode), in the order of the Enum (app.py lines 38-41).
PlaybackModes == <<"SEQUENCE", "SINGLE", "RANDOM">>

\* What self.player.play(...) does and returns when the application calls it:
\* "playing", the audio starts and the call returns a true value;
\* "playing_none", the audio starts and the call returns None, as play() of
\* player.py does; "unavailable", nothing starts and the value is false.
PlayResults == {"playing", "playing_none", "unavailable"}

\* play_song_at_index (app.py lines 325-361): the part of the state it sets.
play_song_at_index(index, r) ==
    IF ~(0 <= index /\ index < Len(songs_in_table))
    THEN UNCHANGED <<cursor_row, current_song, current_lyrics, audio, fetching>>
    ELSE /\ cursor_row' = index
         /\ current_lyrics' = [song |-> index, value |-> lyrics[index]]
         /\ IF songs_in_table[index + 1] = "local"
            THEN /\ audio' = IF r = "unavailable" THEN NoSong ELSE index
                 /\ current_song' = IF r = "playing" THEN index ELSE NoSong
                 /\ UNCHANGED fetching
            ELSE /\ audio' = NoSong
                 /\ current_song' = index
                 /\ fetching' = [fetching EXCEPT ![index] = @ + 1]

\* One more user command.
Command ==
    /\ commands < MaxCommands
    /\ commands' = commands + 1

\* on_data_table_row_selected (lines 423-424).
on_data_table_row_selected(row, r) ==
    /\ Command
    /\ play_song_at_index(row, r)
    /\ UNCHANGED <<songs_in_table, playback_mode, lyrics, song_url, messages,
                   last_next, last_details, otherThanTui>>

\* The rows random.choice is given (lines 372-374).
Candidates == {i \in Rows : i # cursor_row}

\* play_next_song (lines 363-378), called for the "n" key and when a song
\* has come to its end.  random.choice of an empty list raises IndexError.
play_next_song(r) ==
    /\ Command
    /\ songs_in_table # <<>>
    /\ IF playback_mode = "RANDOM" /\ Candidates = {}
       THEN /\ last_next' = [called |-> TRUE, raised |-> TRUE, mode |-> playback_mode,
                             from |-> cursor_row, index |-> cursor_row]
            /\ UNCHANGED <<cursor_row, current_song, current_lyrics, audio, fetching>>
       ELSE \E next \in Rows :
              /\ CASE playback_mode = "SINGLE" -> next = cursor_row
                   [] playback_mode = "RANDOM" -> next \in Candidates
                   [] OTHER -> next = (cursor_row + 1) % Len(songs_in_table)
              /\ last_next' = [called |-> TRUE, raised |-> FALSE, mode |-> playback_mode,
                               from |-> cursor_row, index |-> next]
              /\ play_song_at_index(next, r)
    /\ UNCHANGED <<songs_in_table, playback_mode, lyrics, song_url, messages,
                   last_details, otherThanTui>>

\* The position of mode m in PlaybackModes.
ModeIndex(m) == CHOOSE i \in 1 .. Len(PlaybackModes) : PlaybackModes[i] = m

\* action_toggle_playback_mode (lines 426-430).
action_toggle_playback_mode ==
    /\ Command
    /\ playback_mode' = PlaybackModes[(ModeIndex(playback_mode) % Len(PlaybackModes)) + 1]
    /\ UNCHANGED <<songs_in_table, cursor_row, current_song, current_lyrics, lyrics,
                   song_url, fetching, messages, audio, last_next, last_details,
                   otherThanTui>>

\* action_stop_playback (lines 584-588) with _reset_playback_state.
action_stop_playback ==
    /\ Command
    /\ current_song # NoSong
    /\ audio' = NoSong
    /\ current_song' = NoSong
    /\ UNCHANGED <<songs_in_table, cursor_row, playback_mode, current_lyrics, lyrics,
                   song_url, fetching, messages, last_next, last_details,
                   otherThanTui>>

\* action_cursor_down / action_cursor_up (lines 600-606): the cursor moves to
\* a neighbouring row.
action_cursor_move(row) ==
    /\ Command
    /\ row \in Rows
    /\ row \in {cursor_row - 1, cursor_row + 1}
    /\ cursor_row' = row
    /\ UNCHANGED <<songs_in_table, playback_mode, current_song, current_lyrics, lyrics,
                   song_url, fetching, messages, audio, last_next, last_details,
                   otherThanTui>>

\* fetch_song_details_worker (lines 499-503) with process_online_song_details
\* (lines 51-64): the thread sets play_url and lyrics on the song object when
\* it got them and posts the message with that object.
fetch_song_details_worker(row, got_url, got_lyrics) ==
    /\ row \in Rows
    /\ fetching[row] > 0
    /\ fetching' = [fetching EXCEPT ![row] = @ - 1]
    /\ song_url' = [song_url EXCEPT ![row] = @ \/ got_url]
    /\ lyrics' = [lyrics EXCEPT ![row] = IF got_lyrics THEN "fetched" ELSE @]
    /\ messages' = Append(messages, row)
    /\ UNCHANGED <<songs_in_table, cursor_row, playback_mode, current_song,
                   current_lyrics, audio, commands, last_next, last_details,
                   otherThanTui>>

\* A handler without the test of lines 509-511.
on_online_song_details_no_check(r) ==
    /\ messages # <<>>
    /\ messages' = Tail(messages)
    /\ LET song == Head(messages)
           did_play == song_url[song] /\ r = "playing"
       IN  /\ last_details' = [song |-> song, stale |-> song # current_song]
           /\ current_lyrics' = [song |-> song, value |-> lyrics[song]]
           /\ audio' = IF song_url[song] /\ r # "unavailable" THEN song ELSE audio
           /\ current_song' = IF did_play THEN current_song ELSE NoSong
    /\ UNCHANGED <<songs_in_table, cursor_row, playback_mode, lyrics, song_url,
                   fetching, commands, last_next, otherThanTui>>

\* on_online_song_details (lines 505-531), run by the message loop for the
\* oldest posted message.
on_online_song_details(r) ==
    /\ messages # <<>>
    /\ messages' = Tail(messages)
    /\ LET song == Head(messages)
           did_play == song_url[song] /\ r = "playing"
       IN  /\ last_details' = [song |-> song, stale |-> song # current_song]
           /\ IF song # current_song
              THEN UNCHANGED <<current_lyrics, audio, current_song>>
              ELSE /\ current_lyrics' = [song |-> song, value |-> lyrics[song]]
                   /\ audio' = IF song_url[song] /\ r # "unavailable" THEN song ELSE audio
                   /\ current_song' = IF did_play THEN current_song ELSE NoSong
    /\ UNCHANGED <<songs_in_table, cursor_row, playback_mode, lyrics, song_url,
                   fetching, commands, last_next, otherThanTui>>

\* The application with a table of 1 to MaxRows songs, local or online.
InitTui ==
    /\ BatchInit(<<>>, 1)
    /\ WorkerInit("none", "absent")
    /\ PlaylistInit
    /\ PlayerInit(TRUE)
    /\ \E n \in 1 .. MaxRows : \E kinds \in [1 .. n -> {"local", "online"}] :
          TuiInit(kinds)

NextTui ==
    \/ \E row \in Rows : \E r \in PlayResults : on_data_table_row_selected(row, r)
    \/ \E r \in PlayResults : play_next_song(r)
    \/ action_toggle_playback_mode
    \/ action_stop_playback
    \/ \E row \in Rows : action_cursor_move(row)
    \/ \E row \in Rows : \E u, l \in BOOLEAN : fetch_song_details_worker(row, u, l)
    \/ \E r \in PlayResults : on_online_song_details(r)

SpecTui == InitTui /\ [][NextTui]_vars

\* ------------------------------------------------------------ properties
\* Pipelines inside the `async with semaphore` block.
Holders == {p \in Items : pc[p] \notin {"start", "done"}}

Fetching == {p \in Items : pc[p] = "fetching"}

AllDone == \A p \in Items : pc[p] = "done"

Occurs(seq, i) == Cardinality({k \in 1 .. Len(seq) : seq[k] = i})

\* C1: at most max_concurrency pipelines hold an admission slot at the same
\* time, for every batch size and every interleaving.
C1_BoundedAdmission ==
    Cardinality(Holders) <= max_concurrency

\* C1 witness: every slot is taken, one holder is in the download phase and
\* another pipeline is still waiting for a slot.
C1_Witness ==
    /\ Cardinality(Holders) = max_concurrency
    /\ \E p \in Items : pc[p] = "save"
    /\ \E p \in Items : pc[p] = "start"

C3_OneFetchInFlight ==
    Cardinality(Fetching) <= 1

\* C3 witness: after an invalidation a fetch is in flight while another
\* coroutine queues for the lock.
C3_Witness ==
    /\ Fetching # {}
    /\ waiters # <<>>
    /\ revoked # {}

\* C4: once the batch is reported every item is in exactly one of the two
\* partitions, so the two counts add up to the batch size.
C4_OneOutcomePerItem ==
    main_pc = "reported" =>
        /\ Len(successful_songs) + Len(failed_tasks) = Len(music_ids)
        /\ \A i \in Items :
              Occurs(successful_songs, i) + Occurs(failed_tasks, i) = 1

\* C4 witness: a report over successes, returned failures and an exception.
C4_Witness ==
    /\ main_pc = "reported"
    /\ Len(successful_songs) >= 1
    /\ \E p \in Items : results[p].why = "exception"
    /\ \E p \in Items : results[p].why \in {"no_token", "source_failed", "bad_token"}

\* C5: after a token was cached, invalidation empties the cache (a second
\* invalidation is a no-op), every fetch is accounted for by the empty start,
\* an invalidation or a failed fetch, and a get_token that returns afterwards
\* returns the cached fresh token, never an invalidated one.
C5_InvalidateThenRefetch ==
    /\ [](fetchCount <= 1 + Cardinality(revoked) + fetchFailed)
    /\ [][\A p \in Items :
            /\ (results[p] = Pending /\ results'[p].why = "bad_token") =>
                  /\ token' = NoToken
                  /\ fetchCount' = fetchCount
                  /\ revoked' = IF token = NoToken THEN revoked
                                ELSE revoked \cup {token}
            /\ (tok[p] = NoToken /\ tok'[p] # NoToken) =>
                  /\ tok'[p] = token'
                  /\ tok'[p] \notin revoked']_vars

\* C5 witness: T1 was invalidated, a second invalidation found the cache
\* empty, and a later get_token returned the newly fetched token.
C5_Witness ==
    /\ Cardinality(revoked) = 1
    /\ \E p, q \in Items :
          p # q /\ results[p].why = "bad_token" /\ results[q].why = "bad_token"
    /\ \E r \in Items : tok[r] # NoToken /\ tok[r] = token /\ tok[r] \notin revoked

C7_FailureDoesNotPoison ==
    [][\A p \in Items :
          /\ (pc[p] = "fetching" /\ pc'[p] = "done") =>
                (token' = NoToken /\ lock' = NoOwner)
          /\ (pc[p] = "start" /\ pc'[p] # "start" /\ token = NoToken /\ LockFree) =>
                (pc'[p] = "fetching" /\ fetchCount' = fetchCount + 1)
          /\ (pc[p] = "fetching" /\ token' # NoToken) =>
                (pc'[p] = "source" /\ tok'[p] = token')]_vars

\* C7 witness: after a failed fetch a later call, one that never waited,
\* fetched and got a token.
C7_Witness ==
    /\ fetchFailed > 0
    /\ \E p \in fetched \ waited : tok[p] # NoToken /\ tok[p] > 1

\* The credential state of section 4.1.
CredState ==
    IF Fetching # {} THEN "Fetching"
    ELSE IF token # NoToken THEN "Valid"
    ELSE "Empty"

\* C8 as stated: the only moves are Empty -> Fetching -> Valid -> Empty.
C8_Original ==
    [][CredState' # CredState =>
          <<CredState, CredState'>> \in
              {<<"Empty", "Fetching">>, <<"Fetching", "Valid">>,
               <<"Valid", "Empty">>}]_vars

\* C8 amended: the moves are Empty -> Fetching, Fetching -> Valid (fetch
\* succeeded), Fetching -> Empty (fetch failed) and Valid -> Empty
\* (invalidate); Fetching is never entered from Fetching or Valid.
C8_StateMachine ==
    /\ [][CredState' # CredState =>
            <<CredState, CredState'>> \in
                {<<"Empty", "Fetching">>, <<"Fetching", "Valid">>,
                 <<"Fetching", "Empty">>, <<"Valid", "Empty">>}]_vars
    /\ [][fetchCount' # fetchCount => (CredState = "Empty" /\ CredState' = "Fetching")]_vars

\* C8 witness: all four moves have happened.
C8_Witness ==
    /\ fetchFailed > 0
    /\ revoked # {}
    /\ CredState = "Valid"

\* C9: acquire and release are paired on every exit path: the free slots
\* plus the pipelines inside the block always make up the capacity, so a
\* slot is given back exactly when its pipeline ends and all are free at the
\* end.
C9_SlotsPaired ==
    main_pc \in {"gather", "reported"} =>
        /\ sem >= 0
        /\ sem + Cardinality(Holders) = max_concurrency
        /\ (AllDone => sem = max_concurrency)

\* C9 witness: a batch has ended through all three exits (success, failure
\* return, exception) and every slot is free.
C9_Witness ==
    /\ AllDone /\ main_pc = "gather"
    /\ sem = max_concurrency
    /\ \E p \in Items : results[p].success
    /\ \E p \in Items : results[p].why = "exception"
    /\ \E p \in Items : results[p].why = "source_failed"

\* C10: a pipeline that got no token ends as a failure at once, without a
\* song-source request and without a download.
C10_NoTokenNoWork ==
    \A p \in Items :
        /\ tok[p] = NoToken => pc[p] \in {"start", "wait_lock", "fetching", "done"}
        /\ (pc[p] = "done" /\ tok[p] = NoToken) =>
              /\ ~results[p].success
              /\ metaReq[p] = 0
              /\ downloads[p] = 0

\* C10 witness: a pipeline returned the no-token failure.
C10_Witness ==
    \E p \in Items : results[p].why = "no_token" /\ pc[p] = "done"

\* C11: a pipeline whose song-source response names the token calls
\* invalidate_token exactly once and returns a failure; no pipeline calls
\* get_token more than once or issues a second song-source request.
C11_InvalidateOnceNoLoop ==
    \A p \in Items :
        /\ calls[p].get_token <= 1
        /\ calls[p].invalidate <= 1
        /\ metaReq[p] <= 1
        /\ results[p].why = "bad_token" =>
              /\ ~results[p].success
              /\ calls[p].invalidate = 1
              /\ calls[p].get_token = 1
              /\ metaReq[p] = 1
              /\ downloads[p] = 0
        /\ calls[p].invalidate = 1 =>
              \/ pc[p] = "wait_invalidate"
              \/ pc[p] = "done" /\ results[p].why = "bad_token"

\* C11 witness: a pipeline was told its token is invalid, removed that token
\* from the cache and returned, while a later pipeline got a new token.
C11_Witness ==
    \E p, q \in Items :
        /\ results[p].why = "bad_token"
        /\ tok[p] \in revoked
        /\ tok[q] # NoToken /\ tok[q] # tok[p]

\* C12 as stated: in the batch of five with capacity 2 and one item whose
\* endpoint always answers "invalid token", that item is a failure and the
\* token cache is empty once the batch has finished.
C12_Original ==
    main_pc = "reported" =>
        /\ ~results[BadItem].success
        /\ token = NoToken

\* C12 amended: that item is a failure and its token is gone from the cache
\* once the batch has finished; the cache is empty exactly when no pipeline
\* fetched after the invalidation, otherwise it holds the newer token.
C12_BadItemTokenRevoked ==
    main_pc = "reported" =>
        /\ ~results[BadItem].success
        /\ results[BadItem].why = "bad_token"
        /\ Occurs(failed_tasks, BadItem) = 1
        /\ revoked = {tok[BadItem]}
        /\ token \notin revoked
        /\ (token = NoToken) <=> (fetchCount = 1)

\* C12 witness: the batch has finished with the bad item failed, the four
\* others successful and the cache empty.
C12_Witness ==
    /\ main_pc = "reported"
    /\ results[BadItem].why = "bad_token"
    /\ Len(successful_songs) = Len(music_ids) - 1
    /\ token = NoToken

\* ---------------------------------------------------------------------- C13
\* C13: when the metadata came back without a payload URL, the item's outcome
\* is a failure and no payload download was made for it.
C13_NoUrlIsFailure ==
    \A p \in Items :
        save_end[p] = "no_url" => (~results[p].success /\ downloads[p] = 0)

\* ---------------------------------------------------------------------- C14
\* C14: when the payload download failed or writing the file raised an I/O
\* error, the item's outcome is a failure and the item is not among the
\* successes of the report.
C14_DownloadFailureIsFailure ==
    \A p \in Items :
        save_end[p] \in {"dl_failed", "io_error"} =>
            /\ ~results[p].success
            /\ Occurs(successful_songs, p) = 0

\* ---------------------------------------------------------------------- C15
\* C15: once the payload was downloaded and written, the item's outcome is a
\* success whether the tag embedding worked or failed; after the report such
\* an item is counted once among the successes and not among the failures.
C15_TagFailureKeepsSuccess ==
    \A p \in Items :
        save_end[p] \in FileWritten =>
            /\ results[p].success
            /\ downloads[p] = 1
            /\ main_pc = "reported" =>
                   /\ Occurs(successful_songs, p) = 1
                   /\ Occurs(failed_tasks, p) = 0

\* A reported batch in which one item's tagging failed after its file was
\* written and another item's tagging worked, both counted as successes.
C15_Witness ==
    \E p, q \in Items :
        /\ main_pc = "reported"
        /\ save_end[p] = "tag_failed"
        /\ save_end[q] = "saved"
        /\ results[p].success /\ results[q].success
        /\ Len(successful_songs) = 2

\* ---------------------------------------------------------------------- C16
\* C16: two runs of the pipeline for one item make at most one payload
\* download between them. The two pipelines of SpecTwice run one after the
\* other, so when both wrote the file the later one found it in place and,
\* by the claim, should have returned without downloading.
C16_AtMostOneDownload ==
    \A p, q \in Items :
        ( /\ p # q
          /\ music_ids[p] = music_ids[q]
          /\ save_end[p] \in FileWritten
          /\ save_end[q] \in FileWritten ) =>
            downloads[p] + downloads[q] <= 1

\* ---------------------------------------------------------------------- C17
\* C17: get_music_details never makes more than MAX_RETRIES requests; when
\* its first MAX_RETRIES - 1 requests failed transiently it has made exactly
\* MAX_RETRIES requests by the time it returns, with a pause before each
\* retry, and it returns the metadata if the last request succeeded and a
\* failure if the last request failed transiently too.
C17_RetryBound ==
    /\ Len(trace) <= MAX_RETRIES
    /\ ( /\ details # "unset"
         /\ Len(trace) >= MAX_RETRIES - 1
         /\ \A i \in 1 .. MAX_RETRIES - 1 : trace[i] \in Transient ) =>
            /\ Len(trace) = MAX_RETRIES
            /\ sleeps = MAX_RETRIES - 1
            /\ trace[MAX_RETRIES] = "ok" => details = "url"
            /\ trace[MAX_RETRIES] \in Transient =>
                   /\ details = "None"
                   /\ wpc = "idle"
                   /\ runs[Len(runs)].outcome = "no_link"
                   /\ runs[Len(runs)].gets = 0

\* The fetch returned the metadata on its last allowed request, after two
\* transient failures.
C17_Witness ==
    /\ details = "url"
    /\ Len(trace) = MAX_RETRIES
    /\ \A i \in 1 .. MAX_RETRIES - 1 : trace[i] \in Transient
    /\ sleeps = MAX_RETRIES - 1

\* ---------------------------------------------------------------------- C18
\* C18: a first answer with a 4xx status other than 429 ends the call at
\* once: one request has been made and no pause taken when it returns.
C18_ClientErrorFailsAtOnce ==
    (details # "unset" /\ trace[1] = "http_4xx") =>
        /\ Len(trace) = 1
        /\ sleeps = 0

\* ---------------------------------------------------------------------- C19
\* C19: every batch of at least one item reaches its report, with every
\* pipeline returned and every item given an outcome, whatever the token
\* requests, the song-source requests and the saves of the items lead to.
C19_BatchTerminates ==
    <>( /\ main_pc = "reported"
        /\ \A p \in Items : pc[p] = "done" /\ results[p] # Pending
        /\ sem = max_concurrency
        /\ lock = NoOwner /\ waiters = <<>>
        /\ Len(successful_songs) + Len(failed_tasks) = Len(music_ids) )

\* A reported batch in which one pipeline ended in an exception and its
\* sibling, which had to queue for the lock, still succeeded.
C19_Witness ==
    \E p, r \in Items :
        /\ main_pc = "reported"
        /\ results[p].why = "exception"
        /\ results[r].success
        /\ r \in waited

\* ---------------------------------------------------------------------- C20
\* C20: after an interrupt every submitted item is accounted for: the
\* successes, the failures and the items reported as cancelled add up to the
\* batch, and every abandoned item is among the cancelled ones.
C20_InterruptAccountsForAll ==
    main_pc = "interrupted" =>
        /\ Len(successful_songs) + Len(failed_tasks) + Len(CancelledTasks) = Len(music_ids)
        /\ \A p \in Items : pc[p] = "cancelled" => Occurs(CancelledTasks, p) = 1

\* ---------------------------------------------------------------------- C21
\* C21: a run of main on an empty batch ends with a report, and that report
\* has no success and no failure in it.
C21_EmptyBatchReported ==
    (music_ids = <<>> /\ main_pc # "init") =>
        /\ main_pc = "reported"
        /\ successful_songs = <<>>
        /\ failed_tasks = <<>>

\* ---------------------------------------------------------------------- C22
\* C22: no playlist ever holds the same identifier twice, and an
\* add_to_playlist of an identifier that is already in the playlist raises
\* SongAlreadyExistsException and leaves all playlists as they were.
C22_NoDuplicateIdentifiers ==
    /\ \A i \in 1 .. Len(playlists) :
          \A j, k \in 1 .. Len(playlists[i].ids) :
              playlists[i].ids[j] = playlists[i].ids[k] => j = k
    /\ ( /\ last_call.op = "add"
         /\ HasPlaylist(before, last_call.name)
         /\ InList(IdsOf(before, last_call.name), last_call.arg) ) =>
            /\ last_call.result = "SongAlreadyExistsException"
            /\ playlists = before

\* An OnlineSong was refused because its identifier, the text of its id, is
\* already in the playlist, which holds another identifier as well.
C22_Witness ==
    /\ last_call.op = "add"
    /\ last_call.result = "SongAlreadyExistsException"
    /\ last_call.arg = "1"
    /\ Len(IdsOf(playlists, last_call.name)) = 2

\* ---------------------------------------------------------------------- C23
\* C23: create_playlist of a name that is no playlist yet returns True and
\* adds an empty playlist of that name after the others; create_playlist of a
\* name that is a playlist returns False and leaves all playlists, contents
\* included, as they were.
C23_CreatePlaylist ==
    last_call.op = "create" =>
        IF HasPlaylist(before, last_call.name)
        THEN /\ last_call.result = "False"
             /\ playlists = before
        ELSE /\ last_call.result = "True"
             /\ playlists = Append(before, [name |-> last_call.name, ids |-> <<>>])

\* create_playlist was refused for a playlist that has songs in it, next to a
\* second playlist.
C23_Witness ==
    /\ last_call.op = "create"
    /\ last_call.result = "False"
    /\ Len(playlists) = 2
    /\ Len(IdsOf(playlists, last_call.name)) = 1

\* ---------------------------------------------------------------------- C24
\* C24: remove_from_playlist on an existing playlist returns True exactly when
\* the identifier was in the playlist; afterwards the identifier is not in the
\* playlist, the playlist holds the other identifiers it held, in the order
\* they had, and the other playlists are as they were.
C24_RemoveFromPlaylist ==
    (last_call.op = "remove" /\ HasPlaylist(before, last_call.name)) =>
        LET old == IdsOf(before, last_call.name)
            new == IdsOf(playlists, last_call.name)
        IN  /\ (last_call.result = "True") <=> InList(old, last_call.arg)
            /\ last_call.result \in {"True", "False"}
            /\ ~InList(new, last_call.arg)
            /\ {new[i] : i \in 1 .. Len(new)} =
                  {old[i] : i \in 1 .. Len(old)} \ {last_call.arg}
            /\ \A i, j \in 1 .. Len(new) :
                  i < j => \E a, b \in 1 .. Len(old) :
                              a < b /\ old[a] = new[i] /\ old[b] = new[j]
            /\ Len(playlists) = Len(before)
            /\ \A k \in 1 .. Len(before) :
                  /\ playlists[k].name = before[k].name
                  /\ before[k].name # last_call.name => playlists[k] = before[k]

\* The middle one of three identifiers was removed.
C24_Witness ==
    /\ last_call.op = "remove"
    /\ last_call.result = "True"
    /\ Len(IdsOf(before, last_call.name)) = 3
    /\ IdsOf(before, last_call.name)[2] = last_call.arg
    /\ Len(IdsOf(playlists, last_call.name)) = 2

\* ---------------------------------------------------------------------- C25
\* C25: at any time a new PlaylistManager opened on the config directory
\* loads the playlists the running manager has: the same names in the same
\* order, each with the same identifier list.
C25_RoundTrip ==
    LoadPlaylists(playlists_file) = playlists

\* ---------------------------------------------------------------------- C26
\* C26: get_current_progress returns (0, 0) before any playback and after a
\* stop, (d, d) after a playback of a song of duration d ended on its own,
\* and (min(elapsed, d), d) while the song plays; the position is never
\* beyond the total.
C26_ProgressByPhase ==
    /\ phase \in {"idle", "stopped"} => get_current_progress = <<0, 0>>
    /\ phase = "ended" => get_current_progress = <<song_duration, song_duration>>
    /\ phase = "playing" =>
          get_current_progress =
              <<Min(now - playback_start_time, song_duration), song_duration>>
    /\ get_current_progress[1] <= get_current_progress[2]
    /\ get_current_progress[1] >= 0

\* A song is still playing after more seconds than its duration.
C26_Witness ==
    /\ phase = "playing"
    /\ song_duration = 1
    /\ now - playback_start_time > song_duration
    /\ get_current_progress = <<1, 1>>

\* ---------------------------------------------------------------------- C27
\* C27: at most one subprocess started by the Player is running, and it is the
\* one the Player holds; after a stop none is running and is_playing is false.
C27_OneSubprocess ==
    /\ Cardinality(running) <= 1
    /\ running \subseteq {process}
    /\ player_call = "stop" => (running = {} /\ ~is_playing)

\* A third playback is running, started while the second one was running.
C27_Witness ==
    /\ player_call = "play"
    /\ started = 3
    /\ running = {3}
    /\ is_playing

\* ---------------------------------------------------------------------- C28
\* C28: a token is removed from the cache only by the invalidate_token call of
\* a pipeline that was given that very token and saw it rejected.
C28_OnlyRejectedTokenCleared ==
    \A t \in revoked :
        \E p \in Items : tok[p] = t /\ calls[p].invalidate = 1

\* ---------------------------------------------------------------------- C29
\* C29: when on_online_song_details handles a message whose song is not the
\* current song, nothing starts to play, the current lyrics stay as they are
\* and the current song stays the current song.
C29_StaleDetailsIgnored ==
    [][ ( /\ messages # <<>>
          /\ messages' = Tail(messages)
          /\ Head(messages) # current_song ) =>
            /\ audio' = audio
            /\ current_lyrics' = current_lyrics
            /\ current_song' = current_song ]_vars

\* The details of an online song with a URL and lyrics were handled after the
\* user had moved on to a local song, which goes on playing.
C29_Witness ==
    /\ last_details.stale
    /\ song_url[last_details.song]
    /\ lyrics[last_details.song] = "fetched"
    /\ current_song # NoSong
    /\ current_song # last_details.song
    /\ audio = current_song
    /\ current_lyrics.song = current_song

\* ---------------------------------------------------------------------- C30
\* C30: play_next_song on a table that is not empty does not raise and picks
\* a row of the table: the row after the cursor, wrapping round, in SEQUENCE
\* mode, the cursor's row in SINGLE mode, and another row than the cursor's
\* in RANDOM mode.
C30_NextIndexInTable ==
    last_next.called =>
        /\ ~last_next.raised
        /\ last_next.index \in Rows
        /\ last_next.mode = "SEQUENCE" =>
              last_next.index = (last_next.from + 1) % Len(songs_in_table)
        /\ last_next.mode = "SINGLE" => last_next.index = last_next.from
        /\ last_next.mode = "RANDOM" => last_next.index # last_next.from

=============================================================================
